---- MODULE Spec2Model ----
(***************************************************************************)
(* Model of server/modelpath.go: the reference parser (ParseModelPath and  *)
(* the tag-name accessors) and the path resolver (GetManifestPath,         *)
(* ModelPath.GetManifestPath, GetBlobsPath) over a model store on disk.    *)
(*                                                                         *)
(* Go strings are modelled as sequences of one-character strings, so that  *)
(* cutting, splitting, replacing and joining are computed, not assumed.    *)
(* The build modelled is the linux one (os.PathSeparator is '/').          *)
(***************************************************************************)
EXTENDS Integers, Sequences, FiniteSets, TLC

VARIABLES
    name,        \* parser: the reference string last handed to ParseModelPath
    mp,          \* parser: the current ModelPath value
    tagname,     \* parser: the string last produced by a tag-name accessor
    reparsed,    \* parser: ParseModelPath of the full tag name of mp
    step,        \* parser: the operation that produced the current state
    dirs,        \* store: the paths that exist as directories
    files,       \* store: the paths that exist as non-directory entries
    modelsOK,    \* store: whether envconfig.Models() resolves the store root
    store0,      \* store: dirs and files as they were before the first call
    call,        \* resolver: the last completed call (operation and argument)
    ret,         \* resolver: what the last completed call returned
    touched,     \* resolver: file-system calls made by the last completed call
    lookups,     \* resolver: store-root lookups made by the last completed call
    before,      \* resolver: dirs and files as they were when the last call began
    ncalls,      \* resolver: number of calls completed so far
    procs        \* concurrent callers of GetBlobsPath: position and locals of each

parserVars == <<name, mp, tagname, reparsed, step>>
storeVars == <<dirs, files, modelsOK, store0>>
resolverVars == <<call, ret, touched, lookups, before, ncalls>>
vars == <<name, mp, tagname, reparsed, step, dirs, files, modelsOK, store0,
          call, ret, touched, lookups, before, ncalls, procs>>

----------------------------------------------------------------------------
(* Bounds of the model.                                                    *)

\* longest reference string handed to ParseModelPath
MaxNameLen == 8

\* number of resolver calls made one after the other on one store
MaxCalls == 2

\* number of concurrent callers of GetBlobsPath
NumProcs == 2

----------------------------------------------------------------------------
(* Strings.                                                                *)

\* strings.Repeat for a one-character string
RECURSIVE Rep(_, _)
Rep(c, n) == IF n <= 0 THEN <<>> ELSE <<c>> \o Rep(c, n - 1)

\* strings.HasPrefix
HasPrefix(s, p) == Len(s) >= Len(p) /\ SubSeq(s, 1, Len(p)) = p

\* strings.HasSuffix
HasSuffix(s, p) == Len(s) >= Len(p) /\ SubSeq(s, Len(s) - Len(p) + 1, Len(s)) = p

\* strings.Index, 1-based; 0 when sep does not occur in s
Index(s, sep) ==
    LET hits == {i \in 1..(Len(s) - Len(sep) + 1) : SubSeq(s, i, i + Len(sep) - 1) = sep}
    IN  IF hits = {} THEN 0 ELSE CHOOSE i \in hits : \A j \in hits : i <= j

\* strings.Cut: s around the first occurrence of sep
Cut(s, sep) ==
    LET i == Index(s, sep)
    IN  IF i = 0
        THEN [before |-> s, after |-> <<>>, found |-> FALSE]
        ELSE [before |-> SubSeq(s, 1, i - 1),
              after |-> SubSeq(s, i + Len(sep), Len(s)),
              found |-> TRUE]

\* strings.Split for a non-empty separator: always at least one part
RECURSIVE Split(_, _)
Split(s, sep) ==
    LET c == Cut(s, sep)
    IN  IF c.found THEN <<c.before>> \o Split(c.after, sep) ELSE <<s>>

\* strings.ReplaceAll of one character by another
ReplaceAll(s, old, new) ==
    [i \in 1..Len(s) |-> IF s[i] = old[1] THEN new[1] ELSE s[i]]

\* strings.TrimPrefix
TrimPrefix(s, p) == IF HasPrefix(s, p) THEN SubSeq(s, Len(p) + 1, Len(s)) ELSE s

\* all sequences over S of length at most n
SeqsUpTo(S, n) == UNION {[1..k -> S] : k \in 0..n}

----------------------------------------------------------------------------
(* The reference parser.                                                   *)

DefaultRegistry ==
    <<"r","e","g","i","s","t","r","y",".","g","o","o","b","l","a",".","a","i">>
DefaultNamespace == <<"l","i","b","r","a","r","y">>
DefaultTag == <<"l","a","t","e","s","t">>
DefaultProtocolScheme == <<"h","t","t","p","s">>

PathSeparator == <<"/">>

ModelPath(scheme, registry, namespace, repository, tag) ==
    [ProtocolScheme |-> scheme, Registry |-> registry, Namespace |-> namespace,
     Repository |-> repository, Tag |-> tag]

\* the zero value of the struct
ZeroModelPath == ModelPath(<<>>, <<>>, <<>>, <<>>, <<>>)

\* ParseModelPath cutting the tag off the whole name, before the name is split
\* into its parts
ParseModelPathCutName(n) ==
    LET c     == Cut(n, <<":","/","/">>)
        rest0 == IF c.found THEN c.after ELSE n
        t     == Cut(rest0, <<":">>)
        rest  == ReplaceAll(t.before, PathSeparator, <<"/">>)
        parts == Split(rest, <<"/">>)
        mp0   == ModelPath(IF c.found THEN c.before ELSE DefaultProtocolScheme,
                           DefaultRegistry, DefaultNamespace, <<>>,
                           IF t.found THEN t.after ELSE DefaultTag)
    IN  CASE Len(parts) = 3 ->
               [mp0 EXCEPT !.Registry = parts[1], !.Namespace = parts[2],
                           !.Repository = parts[3]]
          [] Len(parts) = 2 ->
               [mp0 EXCEPT !.Namespace = parts[1], !.Repository = parts[2]]
          [] Len(parts) = 1 ->
               [mp0 EXCEPT !.Repository = parts[1]]
          [] OTHER -> mp0

\* ParseModelPath filling an empty scheme, registry, namespace or tag with
\* its default
ParseModelPathFill(n) ==
    LET c     == Cut(n, <<":","/","/">>)
        rest  == ReplaceAll(IF c.found THEN c.after ELSE n, PathSeparator, <<"/">>)
        parts == Split(rest, <<"/">>)
        mp0   == ModelPath(IF c.found THEN c.before ELSE DefaultProtocolScheme,
                           DefaultRegistry, DefaultNamespace, <<>>, DefaultTag)
        mp1   == CASE Len(parts) = 3 ->
                        [mp0 EXCEPT !.Registry = parts[1], !.Namespace = parts[2],
                                    !.Repository = parts[3]]
                   [] Len(parts) = 2 ->
                        [mp0 EXCEPT !.Namespace = parts[1], !.Repository = parts[2]]
                   [] Len(parts) = 1 ->
                        [mp0 EXCEPT !.Repository = parts[1]]
                   [] OTHER -> mp0
        r     == Cut(mp1.Repository, <<":">>)
        mp2   == IF r.found THEN [mp1 EXCEPT !.Repository = r.before, !.Tag = r.after]
                 ELSE mp1
    IN  ModelPath(IF mp2.ProtocolScheme = <<>> THEN DefaultProtocolScheme
                  ELSE mp2.ProtocolScheme,
                  IF mp2.Registry = <<>> THEN DefaultRegistry ELSE mp2.Registry,
                  IF mp2.Namespace = <<>> THEN DefaultNamespace ELSE mp2.Namespace,
                  mp2.Repository,
                  IF mp2.Tag = <<>> THEN DefaultTag ELSE mp2.Tag)

ParseModelPath(n) ==
    LET c     == Cut(n, <<":","/","/">>)
        rest  == ReplaceAll(IF c.found THEN c.after ELSE n, PathSeparator, <<"/">>)
        parts == Split(rest, <<"/">>)
        mp0   == ModelPath(IF c.found THEN c.before ELSE DefaultProtocolScheme,
                           DefaultRegistry, DefaultNamespace, <<>>, DefaultTag)
        mp1   == CASE Len(parts) = 3 ->
                        [mp0 EXCEPT !.Registry = parts[1], !.Namespace = parts[2],
                                    !.Repository = parts[3]]
                   [] Len(parts) = 2 ->
                        [mp0 EXCEPT !.Namespace = parts[1], !.Repository = parts[2]]
                   [] Len(parts) = 1 ->
                        [mp0 EXCEPT !.Repository = parts[1]]
                   [] OTHER -> mp0
        r     == Cut(mp1.Repository, <<":">>)
    IN  IF r.found THEN [mp1 EXCEPT !.Repository = r.before, !.Tag = r.after]
        ELSE mp1

GetNamespaceRepository(m) == m.Namespace \o <<"/">> \o m.Repository

GetFullTagname(m) ==
    m.Registry \o <<"/">> \o m.Namespace \o <<"/">> \o m.Repository \o <<":">> \o m.Tag

\* GetShortTagname eliding a default namespace whatever the registry is
GetShortTagnameNamespaceOnly(m) ==
    IF m.Namespace = DefaultNamespace
    THEN m.Repository \o <<":">> \o m.Tag
    ELSE IF m.Registry = DefaultRegistry
         THEN m.Namespace \o <<"/">> \o m.Repository \o <<":">> \o m.Tag
         ELSE m.Registry \o <<"/">> \o m.Namespace \o <<"/">> \o m.Repository
              \o <<":">> \o m.Tag

GetShortTagname(m) ==
    IF m.Registry = DefaultRegistry
    THEN IF m.Namespace = DefaultNamespace
         THEN m.Repository \o <<":">> \o m.Tag
         ELSE m.Namespace \o <<"/">> \o m.Repository \o <<":">> \o m.Tag
    ELSE m.Registry \o <<"/">> \o m.Namespace \o <<"/">> \o m.Repository
         \o <<":">> \o m.Tag

\* model.Name.IsValid, the external name-validity predicate: every part is
\* present and free of disallowed characters (a host may carry a port)
PartChars == {"a", "b", ".", "l", "i", "r", "y", "e", "g", "s", "t", "o"}
IsValidPart(p, allowed) == Len(p) >= 1 /\ \A i \in 1..Len(p) : p[i] \in allowed
IsValid(host, namespace, model, tag) ==
    /\ IsValidPart(host, PartChars \cup {":"})
    /\ IsValidPart(namespace, PartChars)
    /\ IsValidPart(model, PartChars)
    /\ IsValidPart(tag, PartChars)

\* model.Name.Filepath, the external encoding: the four parts as nested segments
Filepath(host, namespace, model, tag) ==
    host \o <<"/">> \o namespace \o <<"/">> \o model \o <<"/">> \o tag

----------------------------------------------------------------------------
(* The store on disk and the library calls the resolver makes on it.       *)

\* envconfig.Models(), the external store-root provider: the resolved base
\* directory, or its own error when the root cannot be resolved
ModelsDir == <<"/", "m">>
Models(ok) == IF ok THEN [dir |-> ModelsDir, err |-> FALSE] ELSE [dir |-> <<>>, err |-> TRUE]

\* index of the last '/' of a path, 0 when it has none
LastSlash(path) ==
    LET hits == {i \in 1..Len(path) : path[i] = "/"}
    IN  IF hits = {} THEN 0 ELSE CHOOSE i \in hits : \A j \in hits : j <= i

\* filepath.Join: the non-empty elements joined by the separator (every element
\* here is a plain name or an already clean path, which Clean leaves as it is)
RECURSIVE Join(_)
Join(elems) ==
    IF elems = <<>> THEN <<>>
    ELSE IF Head(elems) = <<>> THEN Join(Tail(elems))
    ELSE IF Join(Tail(elems)) = <<>> THEN Head(elems)
    ELSE Head(elems) \o PathSeparator \o Join(Tail(elems))

\* filepath.Dir: all but the last element of a path
Dir(path) ==
    IF LastSlash(path) = 0 THEN <<".">>
    ELSE IF LastSlash(path) = 1 THEN <<"/">>
    ELSE SubSeq(path, 1, LastSlash(path) - 1)

\* os.Stat: err == nil exactly when the path names an existing entry
Stat(path, D, F) == path \in D \cup F

\* what os.MkdirAll does once os.Mkdir has failed, here never looking again
MkdirErrorIsFinal(path, D) == FALSE

\* what os.MkdirAll does once os.Mkdir has failed: it looks again, and a
\* directory that is there by now is no error
MkdirErrorIsBenign(path, D) == path \in D

\* os.MkdirAll failing on a directory that exists already, as os.Mkdir does
RECURSIVE MkdirAllExclusive(_, _, _)
MkdirAllExclusive(path, D, F) ==
    IF path \in D \cup F THEN [err |-> TRUE, dirs |-> D]
    ELSE LET up == IF LastSlash(path) > 1 /\ Dir(path) \notin D
                   THEN MkdirAllExclusive(Dir(path), D, F)
                   ELSE [err |-> FALSE, dirs |-> D]
         IN  IF up.err THEN up
             ELSE [err |-> FALSE, dirs |-> up.dirs \cup {path}]

\* os.MkdirAll: nothing to do for an existing directory, an error for an
\* existing non-directory, else the parents first and then the directory
RECURSIVE MkdirAll(_, _, _)
MkdirAll(path, D, F) ==
    IF path \in D THEN [err |-> FALSE, dirs |-> D]
    ELSE IF path \in F THEN [err |-> TRUE, dirs |-> D]
    ELSE LET up == IF LastSlash(path) > 1
                   THEN MkdirAll(Dir(path), D, F)
                   ELSE [err |-> FALSE, dirs |-> D]
         IN  IF up.err THEN up
             ELSE IF Dir(path) \in up.dirs
                  THEN [err |-> FALSE, dirs |-> up.dirs \cup {path}]
                  ELSE [err |-> TRUE, dirs |-> up.dirs]

----------------------------------------------------------------------------
(* The path resolver.                                                      *)

\* length of the hex part the digest pattern asks for
HexLen == 64
\* length of the shard name cut from the hex part
ShardLen == 2

HexChars ==
    {"0", "1", "2", "3", "4", "5", "6", "7", "8", "9",
     "a", "b", "c", "d", "e", "f", "A", "B", "C", "D", "E", "F"}
Sha256 == <<"s", "h", "a", "2", "5", "6">>
BlobsName == <<"b", "l", "o", "b", "s">>
ManifestsName == <<"m", "a", "n", "i", "f", "e", "s", "t", "s">>

\* the digest pattern without its end anchor
MatchDigestUnanchored(digest) ==
    /\ Len(digest) >= Len(Sha256) + 1 + HexLen
    /\ SubSeq(digest, 1, Len(Sha256)) = Sha256
    /\ digest[Len(Sha256) + 1] \in {":", "-"}
    /\ \A i \in (Len(Sha256) + 2)..(Len(Sha256) + 1 + HexLen) : digest[i] \in HexChars

\* re.MatchString for "^sha256[:-][0-9a-fA-F]{64}$"
MatchDigest(digest) ==
    /\ Len(digest) = Len(Sha256) + 1 + HexLen
    /\ SubSeq(digest, 1, Len(Sha256)) = Sha256
    /\ digest[Len(Sha256) + 1] \in {":", "-"}
    /\ \A i \in (Len(Sha256) + 2)..Len(digest) : digest[i] \in HexChars

\* the digest left as it was given
CanonicalAsGiven(digest) == digest

\* the digest with every ':' replaced by '-'
Canonical(digest) == ReplaceAll(digest, <<":">>, <<"-">>)

\* the hex part of a canonical digest
HexOf(digest) == TrimPrefix(digest, Sha256 \o <<"-">>)

\* the sharded path of a canonical digest
ShardedPath(mdir, digest) ==
    Join(<<mdir, BlobsName, SubSeq(HexOf(digest), 1, ShardLen), digest>>)

\* the unsharded path of a canonical digest
LegacyPath(mdir, digest) == Join(<<mdir, BlobsName, digest>>)

\* the directory GetBlobsPath creates for a sharded path, here the path itself
ShardDirWhole(path) == path

\* the directory GetBlobsPath creates for a sharded path
ShardDir(path) == Dir(path)

\* the sharded path preferred to the legacy one whenever its entry exists
PickPathShardedFirst(path, old, D, F) ==
    IF Stat(old, D, F) /\ ~Stat(path, D, F) THEN old ELSE path

\* the legacy path when its entry exists, else the sharded path
PickPath(path, old, D, F) == IF Stat(old, D, F) THEN old ELSE path

Result(path, err, D, nfs, nlook) ==
    [path |-> path, err |-> err, dirs |-> D, touched |-> nfs, lookups |-> nlook]

GetBlobsPath(digest, D, F, ok) ==
    IF digest # <<>> /\ ~MatchDigest(digest)
    THEN Result(<<>>, "ErrInvalidDigestFormat", D, 0, 0)
    ELSE IF Models(ok).err
    THEN Result(<<>>, "ModelsErr", D, 0, 1)
    ELSE IF Canonical(digest) = <<>>
    THEN LET path == Join(<<Models(ok).dir, BlobsName>>)
             made == MkdirAll(path, D, F)
         IN  IF made.err
             THEN Result(<<>>, "MkdirAllErr", made.dirs, 1, 1)
             ELSE Result(path, "none", made.dirs, 1, 1)
    ELSE LET path == ShardedPath(Models(ok).dir, Canonical(digest))
             made == MkdirAll(ShardDir(path), D, F)
             old  == LegacyPath(Models(ok).dir, Canonical(digest))
         IN  IF made.err
             THEN Result(<<>>, "MkdirAllErr", made.dirs, 1, 1)
             ELSE Result(PickPath(path, old, made.dirs, F), "none", made.dirs, 2, 1)

\* the package-level GetManifestPath: the manifests directory, created if absent
GetManifestPath(D, F, ok) ==
    IF Models(ok).err
    THEN Result(<<>>, "ModelsErr", D, 0, 1)
    ELSE LET path == Join(<<Models(ok).dir, ManifestsName>>)
             made == MkdirAll(path, D, F)
         IN  IF made.err
             THEN Result(<<>>, "MkdirAllErr", made.dirs, 1, 1)
             ELSE Result(path, "none", made.dirs, 1, 1)

\* ModelPath.GetManifestPath resolving the store root before it checks the name
ModelPathGetManifestPathRootFirst(m, D, F, ok) ==
    IF Models(ok).err
    THEN Result(<<>>, "ModelsErr", D, 0, 1)
    ELSE IF ~IsValid(m.Registry, m.Namespace, m.Repository, m.Tag)
    THEN Result(<<>>, "ErrNotExist", D, 0, 1)
    ELSE Result(Join(<<Models(ok).dir, ManifestsName,
                       Filepath(m.Registry, m.Namespace, m.Repository, m.Tag)>>),
                "none", D, 0, 1)

\* ModelPath.GetManifestPath: the path of the manifest file of a model path
ModelPathGetManifestPath(m, D, F, ok) ==
    IF ~IsValid(m.Registry, m.Namespace, m.Repository, m.Tag)
    THEN Result(<<>>, "ErrNotExist", D, 0, 0)
    ELSE IF Models(ok).err
    THEN Result(<<>>, "ModelsErr", D, 0, 1)
    ELSE Result(Join(<<Models(ok).dir, ManifestsName,
                       Filepath(m.Registry, m.Namespace, m.Repository, m.Tag)>>),
                "none", D, 0, 1)

----------------------------------------------------------------------------
(* The parser as a state machine: a caller parses a reference string or    *)
(* builds a ModelPath literal, then asks for its tag names.                *)

NameChars == {"a", "/", ":"}
Names == SeqsUpTo(NameChars, MaxNameLen)

Registries == {DefaultRegistry, <<"a">>, <<"a", ":", "b">>, <<>>}
Namespaces == {DefaultNamespace, <<"b">>, <<"a", "/", "b">>, <<>>}
Repositories == {<<"a">>, <<"a", "b">>, <<"a", ":", "b">>, <<>>}
Tags == {DefaultTag, <<"b">>, <<>>}
Identities ==
    {ModelPath(DefaultProtocolScheme, r, n, p, t) :
        r \in Registries, n \in Namespaces, p \in Repositories, t \in Tags}

NoProcs == [p \in 1..NumProcs |-> [pc |-> "idle"]]
NoCall == [op |-> "none", digest |-> <<>>, mp |-> ZeroModelPath]
NoRet == [path |-> <<>>, err |-> "none"]
NoStore == [dirs |-> {}, files |-> {}]

ParserInit ==
    /\ name \in Names
    /\ mp = ZeroModelPath
    /\ tagname = <<>>
    /\ reparsed = ZeroModelPath
    /\ step = "init"
    /\ dirs = {} /\ files = {} /\ modelsOK = TRUE /\ store0 = NoStore
    /\ call = NoCall /\ ret = NoRet /\ touched = 0 /\ lookups = 0
    /\ before = NoStore /\ ncalls = 0
    /\ procs = NoProcs

DoParse ==
    /\ step = "init"
    /\ mp' = ParseModelPath(name)
    /\ step' = "parse"
    /\ UNCHANGED <<name, tagname, reparsed, storeVars, resolverVars, procs>>

\* a caller builds the ModelPath itself, with no reference string to parse
DoConstruct ==
    /\ step = "init"
    /\ name = <<>>
    /\ \E m \in Identities :
           /\ mp' = m
           /\ step' = "construct"
           /\ UNCHANGED <<name, tagname, reparsed, storeVars, resolverVars, procs>>

DoFullTagname ==
    /\ step \in {"parse", "construct"}
    /\ tagname' = GetFullTagname(mp)
    /\ reparsed' = ParseModelPath(GetFullTagname(mp))
    /\ step' = "fulltag"
    /\ UNCHANGED <<name, mp, storeVars, resolverVars, procs>>

DoShortTagname ==
    /\ step \in {"parse", "construct"}
    /\ tagname' = GetShortTagname(mp)
    /\ step' = "shorttag"
    /\ UNCHANGED <<name, mp, reparsed, storeVars, resolverVars, procs>>

ParserNext == DoParse \/ DoConstruct \/ DoFullTagname \/ DoShortTagname

SpecParser == ParserInit /\ [][ParserNext]_vars

Tuple(m) == <<m.Registry, m.Namespace, m.Repository, m.Tag>>
ValidIdentity(m) == IsValid(m.Registry, m.Namespace, m.Repository, m.Tag)

\* C4: for every valid identity, parsing its full tag name gives back the same
\* registry, namespace, repository and tag.
C4_RoundTrip ==
    (step = "fulltag" /\ ValidIdentity(mp)) => Tuple(reparsed) = Tuple(mp)

\* a valid identity whose registry carries a port has been serialized and reparsed
C4_Witness ==
    /\ step = "fulltag"
    /\ ValidIdentity(mp)
    /\ mp.Registry = <<"a", ":", "b">>
    /\ mp.Namespace = <<"b">>
    /\ tagname = <<"a", ":", "b", "/", "b", "/", "a", "b", ":", "b">>
    /\ reparsed.Registry = <<"a", ":", "b">>

\* the reference string after its scheme, and its '/'-separated segments
NameRest(n) == IF Cut(n, <<":", "/", "/">>).found THEN Cut(n, <<":", "/", "/">>).after ELSE n
NameSegments(n) == Split(ReplaceAll(NameRest(n), PathSeparator, <<"/">>), <<"/">>)
LastSegment(n) == NameSegments(n)[Len(NameSegments(n))]

\* C8 as stated: after parsing any string, protocolScheme, registry, namespace
\* and tag are each non-empty.
C8_AlwaysPopulated ==
    step = "parse" =>
        /\ mp.ProtocolScheme # <<>>
        /\ mp.Registry # <<>>
        /\ mp.Namespace # <<>>
        /\ mp.Tag # <<>>

\* C8 as amended: parsing is total, and protocolScheme, registry, namespace and
\* tag are each non-empty except exactly when the string gives that part as the
\* empty string: a leading "://", an empty registry or namespace segment, or a
\* repository segment whose first ':' is its last character.
C8_PopulatedUnlessGivenEmpty ==
    step = "parse" =>
        /\ mp = ParseModelPath(name)
        /\ DOMAIN mp = {"ProtocolScheme", "Registry", "Namespace", "Repository", "Tag"}
        /\ (mp.ProtocolScheme = <<>>) <=> HasPrefix(name, <<":", "/", "/">>)
        /\ (mp.Registry = <<>>) <=>
               (Len(NameSegments(name)) = 3 /\ NameSegments(name)[1] = <<>>)
        /\ (mp.Namespace = <<>>) <=>
               \/ (Len(NameSegments(name)) = 3 /\ NameSegments(name)[2] = <<>>)
               \/ (Len(NameSegments(name)) = 2 /\ NameSegments(name)[1] = <<>>)
        /\ (mp.Tag = <<>>) <=>
               /\ Len(NameSegments(name)) <= 3
               /\ Len(LastSegment(name)) >= 1
               /\ Index(LastSegment(name), <<":">>) = Len(LastSegment(name))

\* a string with no empty part was parsed into a fully populated identity, and a
\* string of more than three segments into one with an empty repository
C8_Witness ==
    /\ step = "parse"
    /\ name = <<"a", "/", "a", "/", "a", "/", "a">>
    /\ mp.Repository = <<>>
    /\ mp.Registry = DefaultRegistry
    /\ mp.Tag = DefaultTag

\* C9: the short tag name is "{repository}:{tag}" under the default registry and
\* namespace, "{namespace}/{repository}:{tag}" when only the namespace differs,
\* and the full tag name whenever the registry differs.
C9_ShortTagname ==
    step = "shorttag" =>
        /\ (mp.Registry = DefaultRegistry /\ mp.Namespace = DefaultNamespace)
               => tagname = mp.Repository \o <<":">> \o mp.Tag
        /\ (mp.Registry = DefaultRegistry /\ mp.Namespace # DefaultNamespace)
               => tagname = mp.Namespace \o <<"/">> \o mp.Repository \o <<":">> \o mp.Tag
        /\ (mp.Registry # DefaultRegistry) => tagname = GetFullTagname(mp)

\* the short name of an identity with another registry and the default namespace
C9_Witness ==
    /\ step = "shorttag"
    /\ mp.Registry = <<"a">>
    /\ mp.Namespace = DefaultNamespace
    /\ mp.Repository = <<"a">>
    /\ tagname = <<"a", "/">> \o DefaultNamespace \o <<"/", "a", ":">> \o mp.Tag

----------------------------------------------------------------------------
(* The resolver as a state machine: callers resolve blob and manifest      *)
(* paths, one call after the other, on a store found in some state.        *)

Hex(c1, c2, fill) == <<c1, c2>> \o Rep(fill, HexLen - ShardLen)
Hex1 == Hex("a", "a", "0")
Hex2 == Hex("a", "a", "f")
Hex3 == Hex("A", "b", "0")
ValidDigests == {Sha256 \o <<sep>> \o h : sep \in {":", "-"}, h \in {Hex1, Hex2, Hex3}}
InvalidDigests ==
    {Sha256 \o <<":">> \o Rep("g", HexLen),
     <<"m", "d", "5", ":">> \o Rep("a", 32),
     Sha256 \o <<":">> \o Rep("a", HexLen - 1),
     Sha256 \o <<":">> \o Rep("a", HexLen + 1),
     Sha256 \o <<"_">> \o Hex1,
     Sha256 \o Hex1,
     <<"x">> \o Sha256 \o <<":">> \o Hex1,
     Sha256 \o <<":">> \o <<".", ".">> \o Rep("a", HexLen - 2),
     Sha256 \o <<":">> \o <<"a", "/">> \o Rep("a", HexLen - 2)}
Digests == {<<>>} \cup ValidDigests \cup InvalidDigests

ManifestIdentities ==
    {ModelPath(DefaultProtocolScheme, DefaultRegistry, DefaultNamespace, p, DefaultTag) :
        p \in Repositories}

RootPath == ModelsDir
BlobsPath == ModelsDir \o <<"/">> \o BlobsName
ManifestsPath == ModelsDir \o <<"/">> \o ManifestsName
ShardPath(h) == BlobsPath \o <<"/">> \o SubSeq(h, 1, ShardLen)
LegacyEntry(h) == BlobsPath \o <<"/">> \o Sha256 \o <<"-">> \o h
ShardedEntry(h) == ShardPath(h) \o <<"/">> \o Sha256 \o <<"-">> \o h

Kinds == {"absent", "dir", "file"}
Entry(path, kind) ==
    [dirs |-> IF kind = "dir" THEN {path} ELSE {},
     files |-> IF kind = "file" THEN {path} ELSE {}]
Merge(entries) ==
    [dirs |-> UNION {e.dirs : e \in entries}, files |-> UNION {e.files : e \in entries}]

\* the stores a call may find: the root absent, a non-directory or a directory;
\* under it manifests and blobs likewise; under blobs two shard names, two
\* legacy entries and one sharded entry
StoreUnderBlobs(shardA, shardB, legacy1, legacy3, sharded1) ==
    {Entry(ShardPath(Hex1), shardA), Entry(ShardPath(Hex3), shardB),
     Entry(LegacyEntry(Hex1), legacy1), Entry(LegacyEntry(Hex3), legacy3),
     Entry(ShardedEntry(Hex1), IF shardA = "dir" THEN sharded1 ELSE "absent")}
InitialStores ==
    {Merge({Entry(<<"/">>, "dir"), Entry(RootPath, k)}) : k \in {"absent", "file"}}
    \cup
    {Merge({Entry(<<"/">>, "dir"), Entry(RootPath, "dir"), Entry(ManifestsPath, man),
            Entry(BlobsPath, blobs)}
           \cup (IF blobs = "dir"
                 THEN StoreUnderBlobs(shardA, shardB, legacy1, legacy3, sharded1)
                 ELSE {})) :
        man \in Kinds, blobs \in Kinds, shardA \in Kinds, shardB \in {"absent", "dir"},
        legacy1 \in {"absent", "file"}, legacy3 \in {"absent", "file"},
        sharded1 \in {"absent", "file"}}

Init ==
    /\ name = <<>> /\ mp = ZeroModelPath /\ tagname = <<>>
    /\ reparsed = ZeroModelPath /\ step = "init"
    /\ \E st \in InitialStores :
           /\ dirs = st.dirs
           /\ files = st.files
           /\ store0 = st
    /\ modelsOK \in BOOLEAN
    /\ call = NoCall /\ ret = NoRet /\ touched = 0 /\ lookups = 0
    /\ before = NoStore /\ ncalls = 0
    /\ procs = NoProcs

\* a call returns: its result and its effect on the store are recorded
Return(c, r) ==
    /\ ncalls < MaxCalls
    /\ call' = c
    /\ ret' = [path |-> r.path, err |-> r.err]
    /\ dirs' = r.dirs
    /\ touched' = r.touched
    /\ lookups' = r.lookups
    /\ before' = [dirs |-> dirs, files |-> files]
    /\ ncalls' = ncalls + 1
    /\ UNCHANGED <<files, modelsOK, store0, parserVars, procs>>

CallGetBlobsPath ==
    \E d \in Digests :
        Return([op |-> "GetBlobsPath", digest |-> d, mp |-> ZeroModelPath],
               GetBlobsPath(d, dirs, files, modelsOK))

CallGetManifestPath ==
    Return([op |-> "GetManifestPath", digest |-> <<>>, mp |-> ZeroModelPath],
           GetManifestPath(dirs, files, modelsOK))

CallModelPathGetManifestPath ==
    \E m \in ManifestIdentities :
        Return([op |-> "ModelPath.GetManifestPath", digest |-> <<>>, mp |-> m],
               ModelPathGetManifestPath(m, dirs, files, modelsOK))

Next == CallGetBlobsPath \/ CallGetManifestPath \/ CallModelPathGetManifestPath

Spec == Init /\ [][Next]_vars

----------------------------------------------------------------------------
(* What the claims say of a blob call, stated on the digest as given.      *)

\* a digest of the form sha256, ':' or '-', and exactly 64 hex characters
IsSha256Digest(d) ==
    /\ Len(d) = 71
    /\ HasPrefix(d, Sha256)
    /\ d[7] = ":" \/ d[7] = "-"
    /\ \A i \in 8..71 : d[i] \in HexChars

HexPart(d) == SubSeq(d, 8, Len(d))
LegacyOf(d) == BlobsPath \o <<"/">> \o Sha256 \o <<"-">> \o HexPart(d)
ShardDirOf(d) == BlobsPath \o <<"/", d[8], d[9]>>
ShardedOf(d) == ShardDirOf(d) \o <<"/">> \o Sha256 \o <<"-">> \o HexPart(d)

BlobCall == call.op = "GetBlobsPath"
ValidBlobCall == BlobCall /\ IsSha256Digest(call.digest)
LegacyExisted == LegacyOf(call.digest) \in before.dirs \cup before.files
StoreUnchanged == dirs = before.dirs /\ files = before.files

\* C1 as stated, taken where the store root resolves: whenever the legacy entry
\* of a valid digest exists, the call returns exactly the legacy path.
C1_LegacyAlwaysReturned ==
    (modelsOK /\ ValidBlobCall /\ LegacyExisted) =>
        (ret.err = "none" /\ ret.path = LegacyOf(call.digest))

\* C1 as amended: whenever the legacy entry of a valid digest exists, the call
\* never returns the sharded path; it succeeds exactly when the store root
\* resolves and the shard name is not taken by a non-directory, and a call that
\* succeeds returns exactly the legacy path, whatever else exists.
C1_LegacyReturnedOnSuccess ==
    (ValidBlobCall /\ LegacyExisted) =>
        /\ ret.path # ShardedOf(call.digest)
        /\ (ret.err = "none") <=>
               (modelsOK /\ ShardDirOf(call.digest) \notin before.files)
        /\ (ret.err = "none") => ret.path = LegacyOf(call.digest)
        /\ (ret.err # "none") => ret.path = <<>>

\* the legacy path was returned though the shard directory and a sharded entry of
\* the same digest existed
C1_Witness ==
    /\ ValidBlobCall /\ LegacyExisted
    /\ ShardDirOf(call.digest) \in before.dirs
    /\ ShardedOf(call.digest) \in before.files
    /\ ret.err = "none"
    /\ ret.path = LegacyOf(call.digest)

\* C2: a non-empty digest that does not match the pattern is rejected with
\* InvalidDigestFormat and no path, before the store root is looked up and
\* before any file-system call, so the store is left as it was.
C2_InvalidDigestRejectedFirst ==
    (BlobCall /\ call.digest # <<>> /\ ~IsSha256Digest(call.digest)) =>
        /\ ret.err = "ErrInvalidDigestFormat"
        /\ ret.path = <<>>
        /\ lookups = 0
        /\ touched = 0
        /\ StoreUnchanged

\* a digest one hex character too long was rejected on a store whose root was
\* still to be created
C2_Witness ==
    /\ BlobCall
    /\ call.digest = Sha256 \o <<":">> \o Rep("a", 65)
    /\ ret.err = "ErrInvalidDigestFormat"
    /\ RootPath \notin dirs \cup files
    /\ modelsOK

\* C3: for an identity the validity predicate rejects, the manifest path call
\* returns "does not exist" and an empty path without a store-root lookup or a
\* file-system call; and no manifest path call creates a directory.
C3_InvalidIdentityNotExist ==
    call.op = "ModelPath.GetManifestPath" =>
        /\ ~ValidIdentity(call.mp) =>
               (ret.err = "ErrNotExist" /\ ret.path = <<>> /\ lookups = 0)
        /\ ret.err = "none" =>
               ret.path = ManifestsPath \o <<"/">> \o call.mp.Registry \o <<"/">>
                          \o call.mp.Namespace \o <<"/">> \o call.mp.Repository
                          \o <<"/">> \o call.mp.Tag
        /\ touched = 0
        /\ StoreUnchanged

\* an identity with an empty repository was rejected where the store root does
\* not even resolve
C3_Witness ==
    /\ call.op = "ModelPath.GetManifestPath"
    /\ call.mp.Repository = <<>>
    /\ ~modelsOK
    /\ ret.err = "ErrNotExist"

\* C5 as stated, taken where the store root resolves: the call with the empty
\* digest always succeeds and returns <modelsRoot>/blobs, which exists afterwards.
C5_EmptyDigestAlwaysSucceeds ==
    (modelsOK /\ BlobCall /\ call.digest = <<>>) =>
        (ret.err = "none" /\ ret.path = BlobsPath /\ BlobsPath \in dirs)

\* the call with the empty digest, on its return
EmptyDigestCallReturns ==
    (BlobCall /\ call.digest = <<>>) =>
        /\ (ret.err = "none") <=>
               (modelsOK /\ RootPath \notin before.files /\ BlobsPath \notin before.files)
        /\ (ret.err = "none") =>
               /\ ret.path = BlobsPath
               /\ HasSuffix(ret.path, <<"/", "b", "l", "o", "b", "s">>)
               /\ BlobsPath \in dirs
        /\ (ret.err # "none") => ret.path = <<>>

\* the call with the empty digest, repeated after it succeeded
EmptyDigestCallRepeated ==
    (/\ BlobCall /\ call.digest = <<>> /\ ret.err = "none"
     /\ call'.op = "GetBlobsPath" /\ call'.digest = <<>> /\ ncalls' = ncalls + 1)
    => (ret' = ret /\ dirs' = dirs /\ files' = files)

\* C5 as amended: the call with the empty digest succeeds exactly when the
\* store root resolves and neither it nor <modelsRoot>/blobs is a non-directory;
\* it then returns <modelsRoot>/blobs, which exists afterwards, and repeating
\* it returns the same path without error and leaves the store as it was.
C5_EmptyDigestIdempotent ==
    []EmptyDigestCallReturns /\ [][EmptyDigestCallRepeated]_vars

\* the call with the empty digest was repeated on a store it had created
C5_Witness ==
    /\ BlobCall /\ call.digest = <<>>
    /\ ret.err = "none"
    /\ ncalls = 2
    /\ BlobsPath \in before.dirs
    /\ BlobsPath \notin store0.dirs
    /\ dirs = before.dirs

\* C7 as stated, taken where the store root resolves: for a valid digest without
\* a legacy entry the call returns the sharded path, named with '-', and the
\* shard directory exists afterwards.
C7_ShardedAlwaysReturned ==
    (modelsOK /\ ValidBlobCall /\ ~LegacyExisted) =>
        /\ ret.path = ShardedOf(call.digest)
        /\ ret.err = "none" => ShardDirOf(call.digest) \in dirs

\* C7 as amended: for a valid digest without a legacy entry the call fails only
\* when the store root does not resolve or an element of the shard directory's
\* path is a non-directory; otherwise it returns <modelsRoot>/blobs/<first 2
\* hex chars>/<digest with '-'>, the same for both separators, and the shard
\* directory exists afterwards.
C7_ShardedReturnedOnSuccess ==
    (ValidBlobCall /\ ~LegacyExisted) =>
        /\ (ret.err = "none") <=>
               /\ modelsOK
               /\ {RootPath, BlobsPath, ShardDirOf(call.digest)} \cap before.files = {}
        /\ (ret.err = "none") =>
               /\ ret.path = ShardedOf(call.digest)
               /\ ShardDirOf(call.digest) \in dirs
               /\ \A i \in 1..Len(ret.path) : ret.path[i] # ":"
        /\ (ret.err # "none") => ret.path = <<>>

\* a digest given with ':' resolved to its sharded path on a store where neither
\* the root nor the shard directory existed
C7_Witness ==
    /\ ValidBlobCall /\ ~LegacyExisted
    /\ call.digest[7] = ":"
    /\ RootPath \notin before.dirs
    /\ ret.err = "none"
    /\ ret.path = ShardedOf(call.digest)
    /\ ShardDirOf(call.digest) \in dirs

\* a path <modelsRoot>/blobs/<2 hex chars>
IsShardDir(path) ==
    /\ Len(path) = Len(BlobsPath) + 3
    /\ SubSeq(path, 1, Len(BlobsPath) + 1) = BlobsPath \o <<"/">>
    /\ path[Len(path) - 1] \in HexChars
    /\ path[Len(path)] \in HexChars

\* C10: whatever calls were made, the non-directory entries are the initial
\* ones, no directory was removed, every directory added is the root, manifests,
\* blobs or a shard directory, and a shard directory is added only by a blob
\* call whose digest passed validation.
C10_OnlyDirectoriesAdded ==
    /\ files = store0.files
    /\ store0.dirs \subseteq dirs
    /\ \A path \in dirs \ store0.dirs :
           path \in {RootPath, ManifestsPath, BlobsPath} \/ IsShardDir(path)
    /\ ncalls > 0 =>
           /\ before.dirs \subseteq dirs
           /\ (\E path \in dirs \ before.dirs : IsShardDir(path)) => ValidBlobCall
           /\ (ManifestsPath \in dirs \ before.dirs) => call.op = "GetManifestPath"

\* the manifests directory and a shard directory were both added to a store that
\* held a blob file
C10_Witness ==
    /\ ncalls = 2
    /\ ManifestsPath \in dirs \ store0.dirs
    /\ ShardPath(Hex3) \in dirs \ store0.dirs
    /\ LegacyEntry(Hex1) \in files

----------------------------------------------------------------------------
(* Concurrent callers of GetBlobsPath: each file-system call of a caller   *)
(* is one step, and the steps of the callers interleave.                   *)

ConcDigests ==
    {<<>>, Sha256 \o <<":">> \o Hex1, Sha256 \o <<"-">> \o Hex2, Sha256 \o <<":">> \o Hex3,
     Sha256 \o <<":">> \o Rep("g", HexLen)}

ConcStores ==
    {Merge({Entry(<<"/">>, "dir"), Entry(RootPath, k)}) : k \in Kinds}
    \cup
    {Merge({Entry(<<"/">>, "dir"), Entry(RootPath, "dir"), Entry(BlobsPath, "file")})}
    \cup
    {Merge({Entry(<<"/">>, "dir"), Entry(RootPath, "dir"), Entry(BlobsPath, "dir"),
            Entry(ShardPath(Hex1), shardA), Entry(LegacyEntry(Hex1), legacy1)}) :
        shardA \in Kinds, legacy1 \in {"absent", "file"}}

Procs == 1..NumProcs

ConcInit ==
    /\ name = <<>> /\ mp = ZeroModelPath /\ tagname = <<>>
    /\ reparsed = ZeroModelPath /\ step = "init"
    /\ \E st \in ConcStores :
           /\ dirs = st.dirs
           /\ files = st.files
           /\ store0 = st
    /\ modelsOK \in BOOLEAN
    /\ call = NoCall /\ ret = NoRet /\ touched = 0 /\ lookups = 0
    /\ before = NoStore /\ ncalls = 0
    /\ procs = NoProcs

concFrame == <<files, modelsOK, store0, parserVars, resolverVars>>

\* the directory a call has os.MkdirAll create
TargetOf(digest) ==
    IF Canonical(digest) = <<>>
    THEN Join(<<ModelsDir, BlobsName>>)
    ELSE ShardDir(ShardedPath(ModelsDir, Canonical(digest)))

\* the element of the path of target that lies right under cur
ChildToward(cur, target) ==
    LET later == {i \in (Len(cur) + 2)..Len(target) : target[i] = "/"}
    IN  IF later = {} THEN target
        ELSE SubSeq(target, 1, (CHOOSE i \in later : \A j \in later : i <= j) - 1)

Failed(p, err) ==
    procs' = [procs EXCEPT ![p] = [pc |-> "done", digest |-> procs[p].digest,
                                   ret |-> [path |-> <<>>, err |-> err]]]

\* one level of os.MkdirAll has returned nil: its caller makes the next
\* directory, or os.MkdirAll as a whole has returned
LevelDone(p) ==
    IF procs[p].cur = procs[p].target
    THEN procs' = [procs EXCEPT ![p].pc = "made"]
    ELSE procs' = [procs EXCEPT ![p].pc = "mkdir",
                                ![p].cur = ChildToward(procs[p].cur, procs[p].target)]

\* the call begins: the digest is matched and the store root looked up
Begin(p) ==
    /\ procs[p].pc = "idle"
    /\ \E d \in ConcDigests :
           IF d # <<>> /\ ~MatchDigest(d)
           THEN procs' = [procs EXCEPT ![p] =
                            [pc |-> "done", digest |-> d,
                             ret |-> [path |-> <<>>, err |-> "ErrInvalidDigestFormat"]]]
           ELSE IF Models(modelsOK).err
           THEN procs' = [procs EXCEPT ![p] =
                            [pc |-> "done", digest |-> d,
                             ret |-> [path |-> <<>>, err |-> "ModelsErr"]]]
           ELSE procs' = [procs EXCEPT ![p] =
                            [pc |-> "stat", digest |-> d, target |-> TargetOf(d),
                             cur |-> TargetOf(d)]]
    /\ UNCHANGED <<dirs, concFrame>>

\* os.MkdirAll looks at the path: done if a directory, an error if another
\* entry, else on to the parent, or to making the path if it has none
StatStep(p) ==
    /\ procs[p].pc = "stat"
    /\ IF procs[p].cur \in dirs THEN LevelDone(p)
       ELSE IF procs[p].cur \in files THEN Failed(p, "MkdirAllErr")
       ELSE IF LastSlash(procs[p].cur) > 1
       THEN procs' = [procs EXCEPT ![p].cur = Dir(procs[p].cur)]
       ELSE procs' = [procs EXCEPT ![p].pc = "mkdir"]
    /\ UNCHANGED <<dirs, concFrame>>

\* os.Mkdir: makes the directory if nothing is there and its parent is a directory
MkdirStep(p) ==
    /\ procs[p].pc = "mkdir"
    /\ IF procs[p].cur \notin dirs \cup files /\ Dir(procs[p].cur) \in dirs
       THEN /\ dirs' = dirs \cup {procs[p].cur}
            /\ LevelDone(p)
       ELSE /\ dirs' = dirs
            /\ procs' = [procs EXCEPT ![p].pc = "lstat"]
    /\ UNCHANGED concFrame

\* os.Mkdir has failed: os.MkdirAll looks at the path again
LstatStep(p) ==
    /\ procs[p].pc = "lstat"
    /\ IF MkdirErrorIsBenign(procs[p].cur, dirs)
       THEN LevelDone(p)
       ELSE Failed(p, "MkdirAllErr")
    /\ UNCHANGED <<dirs, concFrame>>

\* the directory is there: the blobs directory is returned, or the legacy path
\* is looked for and one of the two paths returned
ReturnStep(p) ==
    /\ procs[p].pc = "made"
    /\ procs' = [procs EXCEPT ![p] =
                   [pc |-> "done", digest |-> procs[p].digest,
                    ret |-> [path |-> IF Canonical(procs[p].digest) = <<>>
                                      THEN Join(<<ModelsDir, BlobsName>>)
                                      ELSE PickPath(
                                             ShardedPath(ModelsDir, Canonical(procs[p].digest)),
                                             LegacyPath(ModelsDir, Canonical(procs[p].digest)),
                                             dirs, files),
                             err |-> "none"]]]
    /\ UNCHANGED <<dirs, concFrame>>

ConcNext ==
    \E p \in Procs :
        Begin(p) \/ StatStep(p) \/ MkdirStep(p) \/ LstatStep(p) \/ ReturnStep(p)

SpecConc == ConcInit /\ [][ConcNext]_vars

\* what a call returns when it runs alone on the initial store
Alone(d) ==
    LET r == GetBlobsPath(d, store0.dirs, store0.files, modelsOK)
    IN  [path |-> r.path, err |-> r.err]

\* the directories left by the calls run one after the other in a given order
RECURSIVE DirsAfter(_, _)
DirsAfter(order, D) ==
    IF order = <<>> THEN D
    ELSE DirsAfter(Tail(order),
                   GetBlobsPath(procs[Head(order)].digest, D, files, modelsOK).dirs)

Orders == {o \in [Procs -> Procs] : \A i, j \in Procs : o[i] = o[j] => i = j}
AllDone == \A p \in Procs : procs[p].pc = "done"

ReturnsAsAlone == \A p \in Procs : procs[p].pc = "done" => procs[p].ret = Alone(procs[p].digest)
EndsAsInSequence ==
    AllDone => (files = store0.files /\ \A o \in Orders : dirs = DirsAfter(o, store0.dirs))

\* C6 as stated, taken where the store root resolves: however the steps of the
\* calls interleave, every call succeeds, every call returns the path it would
\* return alone on the initial store, and the final store is the one the calls
\* leave when run in sequence.
C6_AllSucceedAsAlone ==
    /\ \A p \in Procs :
           (/\ modelsOK
            /\ procs[p].pc = "done"
            /\ (procs[p].digest = <<>> \/ IsSha256Digest(procs[p].digest)))
               => procs[p].ret.err = "none"
    /\ ReturnsAsAlone
    /\ EndsAsInSequence

\* C6 as amended: however the steps of the calls interleave, every call returns
\* what it would return alone on the initial store, path or error, so that it
\* succeeds exactly when it would succeed alone, and the final store is the one
\* the calls leave when run in sequence, in any order.
C6_InterleavingsAsAlone == ReturnsAsAlone /\ EndsAsInSequence

\* two calls for distinct digests of one shard both went through a failed
\* os.Mkdir or found the directory made meanwhile, and both returned their paths
C6_Witness ==
    /\ AllDone
    /\ procs[1].digest = Sha256 \o <<":">> \o Hex1
    /\ procs[2].digest = Sha256 \o <<"-">> \o Hex2
    /\ procs[1].ret.err = "none" /\ procs[2].ret.err = "none"
    /\ procs[1].ret.path # procs[2].ret.path
    /\ RootPath \notin store0.dirs
    /\ ShardPath(Hex1) \in dirs

====
